---- MODULE Spec2Model ----
(***************************************************************************)
(* Model of src/src/util.ts of pmd-github-action: downloadPmd (resolution  *)
(* of a PMD distribution through the tool cache and the release registry), *)
(* executePmd (construction of the command line) and                       *)
(* determineModifiedFiles (paginated change-set resolution).               *)
(*                                                                         *)
(* A string is a sequence of tokens (TLA+ strings); concatenation is \o.   *)
(* A list of strings is a sequence of such sequences.                      *)
(***************************************************************************)
EXTENDS Integers, Sequences, FiniteSets, TLC

VARIABLES
    platform,         \* what helper.getPlatform() returns on this host
    files,            \* the working directory: file name -> content, NoFile when absent
    execPc,           \* position of executePmd: "idle", "write", "launch", "done"
    execIn,           \* the arguments of the running executePmd call
    pmdExecutable,    \* local pmdExecutable of executePmd
    sourceParameter,  \* local sourceParameter of executePmd
    execEffects,      \* the effects of the running executePmd call, in order
    baseUrl,          \* github_utils.defaults.baseUrl
    jestWorker,       \* whether process.env['JEST_WORKER_ID'] is set
    cache,            \* the tool cache of 'pmd': cached version -> the folder stored under it
    resolved,         \* history: version -> what the first returned resolve of it returned
    dlPc,             \* per run: position of downloadPmd
    dlIn,             \* per run: the arguments of the running downloadPmd call
    pmdVersion,       \* per run: local pmdVersion
    cachedPmdPath,    \* per run: local cachedPmdPath
    pmdRelease,       \* per run: local pmdRelease
    pathToZipDistribution, \* per run: local pathToZipDistribution
    pmdExtractedFolder,    \* per run: local pmdExtractedFolder
    dlEffects,        \* per run: the effects of the running downloadPmd call, in order
    dlResult,         \* per run: what the call returned or threw
    modPc,            \* position of determineModifiedFiles: "idle", "page", "done"
    modIn,            \* context.eventName and the sourcePath of the running call
    page,             \* local page of the pagination loop
    modifiedFilenames, \* local modifiedFilenames: the Set, in insertion order
    modRequests,      \* the page requests of the running call, in order
    modResponses,     \* history: what each request of the running call was answered with
    fetched,          \* history: the change entries the running call has received
    warnings,         \* the core.warning messages of the running call
    modResult         \* what the call returned or threw

execVars == <<platform, files, execPc, execIn, pmdExecutable, sourceParameter, execEffects>>

dlVars == <<baseUrl, jestWorker, cache, resolved, dlPc, dlIn, pmdVersion, cachedPmdPath,
            pmdRelease, pathToZipDistribution, pmdExtractedFolder, dlEffects, dlResult>>

modVars == <<modPc, modIn, page, modifiedFilenames, modRequests, modResponses, fetched,
             warnings, modResult>>

vars == <<execVars, dlVars, modVars>>

\* what executePmd, downloadPmd and determineModifiedFiles each leave alone
execOthers == <<dlVars, modVars>>
dlOthers == <<execVars, modVars>>
modOthers == <<execVars, dlVars>>

(***************************************************************************)
(* Bounds of the model.                                                    *)
(***************************************************************************)
MaxMajor == 7
MaxPatch == 1
MaxFiles == 2
MaxPageLen == 2

(***************************************************************************)
(* Strings.                                                                *)
(***************************************************************************)
None == <<"undefined">>
NoFile == <<"ENOENT">>

RECURSIVE Join(_, _)
\* Array.prototype.join: the elements, separated by sep.
Join(list, sep) ==
    IF list = <<>> THEN <<>>
    ELSE IF Len(list) = 1 THEN list[1]
    ELSE list[1] \o sep \o Join(Tail(list), sep)

(***************************************************************************)
(* Semantic versions, as the semver package reads them.  A version string  *)
(* is major "." minor "." patch, then "-" and the prerelease identifiers   *)
(* separated by ".".                                                       *)
(***************************************************************************)
Majors == 5..MaxMajor
Minors == {0, 40, 41, 42}
Patches == 0..MaxPatch
Prereleases == {<<>>, <<"rc1">>, <<"SNAPSHOT">>}
\* the alphanumeric prerelease identifiers, in ASCII order
PreIds == <<"SNAPSHOT", "rc1">>

SemVers == [major: Majors, minor: Minors, patch: Patches, prerelease: Prereleases]

\* SemVer.format(): the canonical string of a version
Format(v) ==
    <<ToString(v.major), ".", ToString(v.minor), ".", ToString(v.patch)>>
        \o (IF v.prerelease = <<>> THEN <<>> ELSE <<"-">> \o Join([i \in 1..Len(v.prerelease) |-> <<v.prerelease[i]>>], <<".">>))

\* the version strings validateVersion lets through, other than 'latest'
Versions == {Format(v) : v \in SemVers}

\* the number a numeric identifier denotes
Number(tok) == CHOOSE n \in Majors \cup Minors \cup Patches : ToString(n) = tok

\* new SemVer(version): the parsed fields of a version string
Parse(s) ==
    [major |-> Number(s[1]), minor |-> Number(s[3]), patch |-> Number(s[5]),
     prerelease |-> IF Len(s) <= 5 THEN <<>>
                    ELSE [i \in 1..((Len(s) - 5) \div 2) |-> s[5 + 2 * i]]]

Rank(id) == CHOOSE i \in 1..Len(PreIds) : PreIds[i] = id

\* SemVer.compareMain
CompareMain(a, b) ==
    IF a.major # b.major THEN (IF a.major < b.major THEN -1 ELSE 1)
    ELSE IF a.minor # b.minor THEN (IF a.minor < b.minor THEN -1 ELSE 1)
    ELSE IF a.patch # b.patch THEN (IF a.patch < b.patch THEN -1 ELSE 1)
    ELSE 0

RECURSIVE ComparePreFrom(_, _, _)
ComparePreFrom(a, b, i) ==
    IF i > Len(a) /\ i > Len(b) THEN 0
    ELSE IF i > Len(b) THEN 1
    ELSE IF i > Len(a) THEN -1
    ELSE IF a[i] = b[i] THEN ComparePreFrom(a, b, i + 1)
    ELSE IF Rank(a[i]) < Rank(b[i]) THEN -1 ELSE 1

\* SemVer.comparePre: a version without prerelease is greater than one with
ComparePre(a, b) ==
    IF a.prerelease # <<>> /\ b.prerelease = <<>> THEN -1
    ELSE IF a.prerelease = <<>> /\ b.prerelease # <<>> THEN 1
    ELSE IF a.prerelease = <<>> /\ b.prerelease = <<>> THEN 0
    ELSE ComparePreFrom(a.prerelease, b.prerelease, 1)

\* semver.compare
Compare(a, b) ==
    IF CompareMain(Parse(a), Parse(b)) # 0 THEN CompareMain(Parse(a), Parse(b))
    ELSE ComparePre(Parse(a), Parse(b))

\* semver.gte
Gte(a, b) == Compare(a, b) >= 0

\* semver.major
Major(v) == Parse(v).major

NewArgsThreshold == <<"6", ".", "41", ".", "0">>

\* a slip: the prerelease part is left out of the comparison
useNewArgsFormat_mainOnly(version) ==
    CompareMain(Parse(version), Parse(NewArgsThreshold)) >= 0

\* a slip: the long flags only from 7.0.0 on
useNewArgsFormat_seven(version) == Gte(version, <<"7", ".", "0", ".", "0">>)

useNewArgsFormat(version) == Gte(version, NewArgsThreshold)

\* a slip: a full comparison with 7.0.0 instead of the major number
isPmd7Cli_gte(version) == Gte(version, <<"7", ".", "0", ".", "0">>)

isPmd7Cli(version) == Major(version) >= 7

(***************************************************************************)
(* executePmd                                                              *)
(***************************************************************************)
Platforms == {"linux", "darwin", "win32"}
FileNames == {<<"src", "/", "A.java">>, <<"B.java">>}
ToolPaths == {<<"/cache/pmd/x64/pmd-bin">>}
SourcePaths == {<<".">>, <<"src">>}
Rulesets == {<<"ruleset.xml">>}
ReportFormats == {<<"sarif">>}
ReportFiles == {<<"pmd-report.sarif">>}
Priorities == {<<"5">>}

RECURSIVE SeqsUpTo(_, _)
\* the sequences over S of length at most n
SeqsUpTo(S, n) ==
    IF n = 0 THEN {<<>>}
    ELSE LET shorter == SeqsUpTo(S, n - 1)
         IN shorter \cup {Append(s, x) : s \in shorter, x \in S}

FileLists == SeqsUpTo(FileNames, MaxFiles)

\* fileListOrSourcePath: string | string[]
SourceSelectors ==
    [isArray: {FALSE}, value: SourcePaths] \cup [isArray: {TRUE}, value: FileLists]

ExecInputs ==
    [pmdInfo: [version: Versions, path: ToolPaths],
     fileListOrSourcePath: SourceSelectors,
     ruleset: Rulesets, reportFormat: ReportFormats,
     reportFile: ReportFiles, minimumPriority: Priorities]

NoExecIn == [pmdInfo |-> None]

\* a slip: the version-based choice made after the platform choice
ExecutableFor_versionLast(version, plat) ==
    LET byPlatform == IF plat = "win32" THEN <<"\\bin\\pmd.bat">> ELSE <<"/bin/run.sh pmd">>
        entry == IF isPmd7Cli(version) THEN <<"/bin/pmd">> ELSE byPlatform
    IN IF isPmd7Cli(version) THEN entry \o <<" check --no-progress">> ELSE entry

\* lines 93-103: the executable suffix appended to pmdInfo.path
ExecutableFor(version, plat) ==
    LET byVersion == IF isPmd7Cli(version) THEN <<"/bin/pmd">> ELSE <<"/bin/run.sh pmd">>
        entry == IF plat = "win32" THEN <<"\\bin\\pmd.bat">> ELSE byVersion
    IN IF isPmd7Cli(version) THEN entry \o <<" check --no-progress">> ELSE entry

\* lines 108-111 and 116
SourceParameterFor(version, selector) ==
    IF selector.isArray
    THEN <<IF useNewArgsFormat(version) THEN <<"--file-list">> ELSE <<"-filelist">>,
           <<"pmd.filelist">>>>
    ELSE <<<<"-d">>, selector.value>>

\* lines 124-135: the argument vector handed to exec.getExecOutput
ArgsFor(in, srcParam) ==
    <<IF useNewArgsFormat(in.pmdInfo.version) THEN <<"--no-cache">> ELSE <<"-no-cache">>>>
        \o srcParam
        \o <<<<"-f">>, in.reportFormat, <<"-R">>, in.ruleset,
             <<"-r">>, in.reportFile, <<"--minimum-priority">>, in.minimumPriority>>

\* a slip: the names separated by a comma and a space
writeFileList_spaced(fileList) ==
    /\ files' = [files EXCEPT !["pmd.filelist"] = Join(fileList, <<",", " ">>)]
    /\ execEffects' = Append(execEffects,
            [op |-> "writeFile", file |-> <<"pmd.filelist">>, data |-> Join(fileList, <<",", " ">>)])

\* writeFileList: fs.writeFile(path.join('.', 'pmd.filelist'), fileList.join(','), 'utf8')
writeFileList(fileList) ==
    /\ files' = [files EXCEPT !["pmd.filelist"] = Join(fileList, <<",">>)]
    /\ execEffects' = Append(execEffects,
            [op |-> "writeFile", file |-> <<"pmd.filelist">>, data |-> Join(fileList, <<",">>)])

\* executePmd is called: lines 93-106, up to the first await
ExecCall ==
    /\ execPc = "idle"
    /\ \E in \in ExecInputs :
        /\ execIn' = in
        /\ pmdExecutable' = ExecutableFor(in.pmdInfo.version, platform)
        /\ execEffects' = <<>>
        /\ IF in.fileListOrSourcePath.isArray
           THEN /\ execPc' = "write"
                /\ sourceParameter' = <<>>
           ELSE /\ execPc' = "launch"
                /\ sourceParameter' = SourceParameterFor(in.pmdInfo.version, in.fileListOrSourcePath)
    /\ UNCHANGED execOthers
    /\ UNCHANGED <<platform, files>>

\* lines 107-114: the file list is written, then sourceParameter is set
ExecWriteFileList ==
    /\ execPc = "write"
    /\ writeFileList(execIn.fileListOrSourcePath.value)
    /\ sourceParameter' = SourceParameterFor(execIn.pmdInfo.version, execIn.fileListOrSourcePath)
    /\ execPc' = "launch"
    /\ UNCHANGED execOthers
    /\ UNCHANGED <<platform, execIn, pmdExecutable>>

\* lines 122-139: exec.getExecOutput(`${pmdInfo.path}${pmdExecutable}`, [...], {ignoreReturnCode: true})
ExecLaunch ==
    /\ execPc = "launch"
    /\ execEffects' = Append(execEffects,
            [op |-> "exec",
             commandLine |-> execIn.pmdInfo.path \o pmdExecutable,
             args |-> ArgsFor(execIn, sourceParameter),
             ignoreReturnCode |-> TRUE])
    /\ execPc' = "done"
    /\ UNCHANGED execOthers
    /\ UNCHANGED <<platform, files, execIn, pmdExecutable, sourceParameter>>

\* line 143: the output is returned to the caller
ExecReturn ==
    /\ execPc = "done"
    /\ execPc' = "idle"
    /\ execIn' = NoExecIn
    /\ pmdExecutable' = <<>>
    /\ sourceParameter' = <<>>
    /\ execEffects' = <<>>
    /\ UNCHANGED execOthers
    /\ UNCHANGED <<platform, files>>

ExecInit ==
    /\ platform \in Platforms
    /\ files = [f \in {"pmd.filelist"} |-> NoFile]
    /\ execPc = "idle"
    /\ execIn = NoExecIn
    /\ pmdExecutable = <<>>
    /\ sourceParameter = <<>>
    /\ execEffects = <<>>

ExecQuiet ==
    /\ platform = "linux"
    /\ files = [f \in {"pmd.filelist"} |-> NoFile]
    /\ execPc = "idle"
    /\ execIn = NoExecIn
    /\ pmdExecutable = <<>>
    /\ sourceParameter = <<>>
    /\ execEffects = <<>>

(***************************************************************************)
(* downloadPmd.  The path module is node's posix path module.  A run is    *)
(* one workflow run calling downloadPmd; the tool cache is shared by the   *)
(* runs of a host.                                                         *)
(***************************************************************************)
Runs == {1, 2}
Latest == <<"latest">>
PUBLIC_GITHUB_API_URL == <<"https://api.github.com">>
BaseUrls == {PUBLIC_GITHUB_API_URL, <<"https://ghes.example.com/api/v3">>}
Tokens == {<<"my_test_token">>}
DownloadUrls == {None, <<>>, <<"https://example.org/download">>}
\* the versions the registry holds a release of
Released ==
    {Format([major |-> 6, minor |-> 40, patch |-> 0, prerelease |-> <<>>]),
     Format([major |-> 7, minor |-> 0, patch |-> 0, prerelease |-> <<"rc1">>]),
     Format([major |-> 7, minor |-> 0, patch |-> 0, prerelease |-> <<>>])}
CacheRoot == <<"RUNNER_TOOL_CACHE">>
Arch == <<"x64">>

DlInputs == [version: Released \cup {Latest}, token: Tokens, downloadUrl: DownloadUrls]
NoDlIn == [version |-> None]
NoRelease == [status |-> 0]
NoResult == [status |-> "none"]
Failed(msg) == [status |-> "error", error |-> msg]
PmdInfo(version, path) == [status |-> "ok", version |-> version, path |-> path]

\* path.join of two clean relative or absolute paths
PathJoin(a, b) == a \o <<"/">> \o b

\* String.prototype.replace(pattern, ''): the first occurrence of the token removed
RemoveFirst(s, tok) ==
    IF \A i \in 1..Len(s) : s[i] # tok THEN s
    ELSE LET k == CHOOSE i \in 1..Len(s) : s[i] = tok /\ \A j \in 1..(i - 1) : s[j] # tok
         IN SubSeq(s, 1, k - 1) \o SubSeq(s, k + 1, Len(s))

\* a slip: the lookup never finds the entry (a wrong tool name or architecture)
tcFind_miss(versionSpec) == <<>>

\* the directory of a cached version: <tool cache>/pmd/<version>/<arch>
ToolCachePath(version) ==
    PathJoin(PathJoin(PathJoin(CacheRoot, <<"pmd">>), version), Arch)

\* tc.find('pmd', versionSpec): an explicit version is looked up; 'latest' is no
\* explicit version and, read as a range, no cached version satisfies it
tcFind(versionSpec) ==
    IF versionSpec \in Versions /\ versionSpec \in DOMAIN cache
    THEN ToolCachePath(versionSpec)
    ELSE <<>>

\* the tag of a release, and the assets a release of a version may carry
TagOf(version) == <<"pmd_releases/">> \o version
BinName(version) == <<"pmd-bin-">> \o version \o <<".zip">>
DistName(version) == <<"pmd-dist-">> \o version \o <<"-bin.zip">>
SrcName(version) == <<"pmd-src-">> \o version \o <<".zip">>
Asset(version, name) ==
    [name |-> name,
     browser_download_url |->
        <<"https://github.com/pmd/pmd/releases/download/">> \o TagOf(version) \o <<"/">> \o name]
AssetLists(version) ==
    {<<Asset(version, SrcName(version)), Asset(version, BinName(version))>>,
     <<Asset(version, DistName(version)), Asset(version, SrcName(version))>>,
     <<Asset(version, SrcName(version))>>}
ReleasesOf(version) ==
    {[status |-> 200, data |-> [tag_name |-> TagOf(version), assets |-> a]] :
        a \in AssetLists(version)}

getPmdVersionFromRelease(release) == RemoveFirst(release.data.tag_name, "pmd_releases/")

\* lines 224-230: the assets with one of the two known names
MatchingAssets(release) ==
    LET version == getPmdVersionFromRelease(release)
        Known(a) == a.name = BinName(version) \/ a.name = DistName(version)
    IN SelectSeq(release.data.assets, Known)

\* getDownloadURL: the url of the first matching asset; reading it off a missing
\* asset throws
getDownloadURL(release) == MatchingAssets(release)[1].browser_download_url

\* a slip: the instance keeps the configured base url and always carries the token
OctokitFor_configured(token) == [baseUrl |-> baseUrl, auth |-> token]

\* lines 163-200: the client determinePmdRelease builds
OctokitFor(token) ==
    LET canUseToken == baseUrl = PUBLIC_GITHUB_API_URL
        viaActions == IF canUseToken THEN [baseUrl |-> baseUrl, auth |-> token]
                      ELSE [baseUrl |-> PUBLIC_GITHUB_API_URL, auth |-> None]
        direct == IF canUseToken THEN [baseUrl |-> PUBLIC_GITHUB_API_URL, auth |-> token]
                  ELSE [baseUrl |-> PUBLIC_GITHUB_API_URL, auth |-> None]
    IN IF jestWorker THEN direct ELSE viaActions

\* lines 202-214: the request determinePmdRelease sends
ReleaseRequest(version, token) ==
    [op |-> "registry",
     baseUrl |-> OctokitFor(token).baseUrl,
     auth |-> OctokitFor(token).auth,
     route |-> IF version = Latest THEN <<"repos/pmd/pmd/releases/latest">>
               ELSE <<"repos/pmd/pmd/releases/tags/">> \o TagOf(version)]

\* the releases the registry may answer a request for a version with
Answers(version) ==
    IF version = Latest THEN UNION {ReleasesOf(v) : v \in Released}
    ELSE ReleasesOf(version)

DlLocalsUnchanged(r) ==
    UNCHANGED <<pmdVersion, cachedPmdPath, pmdRelease, pathToZipDistribution, pmdExtractedFolder>>

\* a slip: the conflict of 'latest' with a download url is not rejected
Conflict_never(in) == FALSE

\* line 73
Conflict(in) == in.version = Latest /\ in.downloadUrl # None /\ in.downloadUrl # <<>>

\* downloadPmd is called: lines 73-82, then downloadPmdRelease lines 28-32 or
\* downloadPmdUrl lines 52-53, up to the first await
DlCall(r) ==
    /\ dlPc[r] = "idle"
    /\ \E in \in DlInputs :
        /\ dlIn' = [dlIn EXCEPT ![r] = in]
        /\ IF Conflict(in)
           THEN /\ dlPc' = [dlPc EXCEPT ![r] = "done"]
                /\ dlResult' = [dlResult EXCEPT ![r] = Failed("Can't combine version with custom downloadUrl")]
                /\ dlEffects' = [dlEffects EXCEPT ![r] = <<>>]
                /\ DlLocalsUnchanged(r)
           ELSE IF in.downloadUrl = None \/ in.downloadUrl = <<>>
           THEN /\ pmdVersion' = [pmdVersion EXCEPT ![r] = in.version]
                /\ cachedPmdPath' = [cachedPmdPath EXCEPT ![r] = tcFind(in.version)]
                /\ IF tcFind(in.version) = <<>>
                   THEN /\ dlPc' = [dlPc EXCEPT ![r] = "release"]
                        /\ dlEffects' = [dlEffects EXCEPT ![r] =
                                <<[op |-> "find", version |-> in.version],
                                  ReleaseRequest(in.version, in.token)>>]
                        /\ dlResult' = [dlResult EXCEPT ![r] = NoResult]
                   ELSE /\ dlPc' = [dlPc EXCEPT ![r] = "done"]
                        /\ dlEffects' = [dlEffects EXCEPT ![r] =
                                <<[op |-> "find", version |-> in.version]>>]
                        /\ dlResult' = [dlResult EXCEPT ![r] =
                                PmdInfo(in.version,
                                        PathJoin(tcFind(in.version), <<"pmd-bin-">> \o in.version))]
                /\ UNCHANGED <<pmdRelease, pathToZipDistribution, pmdExtractedFolder>>
           ELSE /\ pmdVersion' = [pmdVersion EXCEPT ![r] = in.version]
                /\ dlPc' = [dlPc EXCEPT ![r] = "urlDownload"]
                /\ dlEffects' = [dlEffects EXCEPT ![r] =
                        <<[op |-> "download", url |-> in.downloadUrl]>>]
                /\ dlResult' = [dlResult EXCEPT ![r] = NoResult]
                /\ UNCHANGED <<cachedPmdPath, pmdRelease, pathToZipDistribution, pmdExtractedFolder>>
    /\ UNCHANGED dlOthers
    /\ UNCHANGED <<baseUrl, jestWorker, cache, resolved>>

\* lines 32-36: the registry answers; the version is read off the tag and the
\* download of the matching asset starts
DlRelease(r) ==
    /\ dlPc[r] = "release"
    /\ \E release \in Answers(dlIn[r].version) :
        /\ pmdRelease' = [pmdRelease EXCEPT ![r] = release]
        /\ pmdVersion' = [pmdVersion EXCEPT ![r] = getPmdVersionFromRelease(release)]
        /\ IF MatchingAssets(release) = <<>>
           THEN /\ dlPc' = [dlPc EXCEPT ![r] = "done"]
                /\ dlResult' = [dlResult EXCEPT ![r] = Failed("TypeError: asset is undefined")]
                /\ UNCHANGED dlEffects
           ELSE /\ dlPc' = [dlPc EXCEPT ![r] = "download"]
                /\ dlEffects' = [dlEffects EXCEPT ![r] =
                        Append(@, [op |-> "download", url |-> getDownloadURL(release)])]
                /\ UNCHANGED dlResult
    /\ UNCHANGED dlOthers
    /\ UNCHANGED <<baseUrl, jestWorker, cache, resolved, dlIn, cachedPmdPath,
                   pathToZipDistribution, pmdExtractedFolder>>

\* lines 34-37: the archive is downloaded; its extraction starts
DlDownloaded(r) ==
    /\ dlPc[r] = "download"
    /\ pathToZipDistribution' = [pathToZipDistribution EXCEPT ![r] =
            <<"RUNNER_TEMP", "/", "zip:">> \o getDownloadURL(pmdRelease[r])]
    /\ dlEffects' = [dlEffects EXCEPT ![r] =
            Append(@, [op |-> "extract",
                       file |-> <<"RUNNER_TEMP", "/", "zip:">> \o getDownloadURL(pmdRelease[r])])]
    /\ dlPc' = [dlPc EXCEPT ![r] = "extract"]
    /\ UNCHANGED dlOthers
    /\ UNCHANGED <<baseUrl, jestWorker, cache, resolved, dlIn, pmdVersion, cachedPmdPath,
                   pmdRelease, pmdExtractedFolder, dlResult>>

\* a slip: the folder is cached under the requested version
CacheKey_requested(r) == dlIn[r].version

\* line 38: the version tc.cacheDir stores the folder under
CacheKey(r) == pmdVersion[r]

\* lines 37-38: the archive is extracted; the copy into the tool cache starts
DlExtracted(r) ==
    /\ dlPc[r] = "extract"
    /\ pmdExtractedFolder' = [pmdExtractedFolder EXCEPT ![r] =
            <<"RUNNER_TEMP", "/", "dir:">> \o getDownloadURL(pmdRelease[r])]
    /\ dlEffects' = [dlEffects EXCEPT ![r] =
            Append(@, [op |-> "cacheDir", version |-> CacheKey(r)])]
    /\ dlPc' = [dlPc EXCEPT ![r] = "cacheDir"]
    /\ UNCHANGED dlOthers
    /\ UNCHANGED <<baseUrl, jestWorker, cache, resolved, dlIn, pmdVersion, cachedPmdPath,
                   pmdRelease, pathToZipDistribution, dlResult>>

\* a slip: the directory of the tool is emptied before the folder is stored
DlCached_wipes(r) ==
    /\ dlPc[r] = "cacheDir"
    /\ cache' = (CacheKey(r) :> pmdExtractedFolder[r])
    /\ cachedPmdPath' = [cachedPmdPath EXCEPT ![r] = ToolCachePath(CacheKey(r))]
    /\ dlResult' = [dlResult EXCEPT ![r] =
            PmdInfo(pmdVersion[r],
                    PathJoin(cachedPmdPath'[r], <<"pmd-bin-">> \o pmdVersion[r]))]
    /\ dlPc' = [dlPc EXCEPT ![r] = "done"]
    /\ UNCHANGED dlOthers
    /\ UNCHANGED <<baseUrl, jestWorker, resolved, dlIn, pmdVersion, pmdRelease,
                   pathToZipDistribution, pmdExtractedFolder, dlEffects>>

\* lines 38-45: tc.cacheDir has stored the folder under the version; the
\* PmdInfo is returned
DlCached(r) ==
    /\ dlPc[r] = "cacheDir"
    /\ cache' = (CacheKey(r) :> pmdExtractedFolder[r]) @@ cache
    /\ cachedPmdPath' = [cachedPmdPath EXCEPT ![r] = ToolCachePath(CacheKey(r))]
    /\ dlResult' = [dlResult EXCEPT ![r] =
            PmdInfo(pmdVersion[r],
                    PathJoin(cachedPmdPath'[r], <<"pmd-bin-">> \o pmdVersion[r]))]
    /\ dlPc' = [dlPc EXCEPT ![r] = "done"]
    /\ UNCHANGED dlOthers
    /\ UNCHANGED <<baseUrl, jestWorker, resolved, dlIn, pmdVersion, pmdRelease,
                   pathToZipDistribution, pmdExtractedFolder, dlEffects>>

\* the first top-level entries an archive given by url may hold
ArchiveEntries == {<<<<"pmd-bin-7.0.0-SNAPSHOT">>>>, <<<<"LICENSE">>, <<"pmd-bin">>>>}

\* lines 53-54: the archive of the url is downloaded; its extraction starts
DlUrlDownloaded(r) ==
    /\ dlPc[r] = "urlDownload"
    /\ pathToZipDistribution' = [pathToZipDistribution EXCEPT ![r] =
            <<"RUNNER_TEMP", "/", "zip:">> \o dlIn[r].downloadUrl]
    /\ dlEffects' = [dlEffects EXCEPT ![r] =
            Append(@, [op |-> "extract", file |-> <<"RUNNER_TEMP", "/", "zip:">> \o dlIn[r].downloadUrl])]
    /\ dlPc' = [dlPc EXCEPT ![r] = "urlExtract"]
    /\ UNCHANGED dlOthers
    /\ UNCHANGED <<baseUrl, jestWorker, cache, resolved, dlIn, pmdVersion, cachedPmdPath,
                   pmdRelease, pmdExtractedFolder, dlResult>>

\* lines 54-58: the archive is extracted; the listing of the folder starts
DlUrlExtracted(r) ==
    /\ dlPc[r] = "urlExtract"
    /\ pmdExtractedFolder' = [pmdExtractedFolder EXCEPT ![r] =
            <<"RUNNER_TEMP", "/", "dir:">> \o dlIn[r].downloadUrl]
    /\ dlEffects' = [dlEffects EXCEPT ![r] =
            Append(@, [op |-> "readdir", dir |-> <<"RUNNER_TEMP", "/", "dir:">> \o dlIn[r].downloadUrl])]
    /\ dlPc' = [dlPc EXCEPT ![r] = "urlReaddir"]
    /\ UNCHANGED dlOthers
    /\ UNCHANGED <<baseUrl, jestWorker, cache, resolved, dlIn, pmdVersion, cachedPmdPath,
                   pmdRelease, pathToZipDistribution, dlResult>>

\* a slip: the last entry of the folder is taken
DlUrlListed_last(r) ==
    /\ dlPc[r] = "urlReaddir"
    /\ \E entries \in ArchiveEntries :
        dlResult' = [dlResult EXCEPT ![r] =
            PmdInfo(pmdVersion[r], PathJoin(pmdExtractedFolder[r], entries[Len(entries)]))]
    /\ dlPc' = [dlPc EXCEPT ![r] = "done"]
    /\ UNCHANGED dlOthers
    /\ UNCHANGED <<baseUrl, jestWorker, cache, resolved, dlIn, pmdVersion, cachedPmdPath,
                   pmdRelease, pathToZipDistribution, pmdExtractedFolder, dlEffects>>

\* lines 58-65: the folder is listed; its first entry is the base path
DlUrlListed(r) ==
    /\ dlPc[r] = "urlReaddir"
    /\ \E entries \in ArchiveEntries :
        dlResult' = [dlResult EXCEPT ![r] =
            PmdInfo(pmdVersion[r], PathJoin(pmdExtractedFolder[r], entries[1]))]
    /\ dlPc' = [dlPc EXCEPT ![r] = "done"]
    /\ UNCHANGED dlOthers
    /\ UNCHANGED <<baseUrl, jestWorker, cache, resolved, dlIn, pmdVersion, cachedPmdPath,
                   pmdRelease, pathToZipDistribution, pmdExtractedFolder, dlEffects>>

\* an awaited request (registry, download, extraction, cache copy, listing)
\* fails: the error propagates out of downloadPmd
DlFail(r) ==
    /\ dlPc[r] \in {"release", "download", "extract", "cacheDir",
                    "urlDownload", "urlExtract", "urlReaddir"}
    /\ dlResult' = [dlResult EXCEPT ![r] = Failed("request failed")]
    /\ dlPc' = [dlPc EXCEPT ![r] = "done"]
    /\ UNCHANGED dlOthers
    /\ UNCHANGED <<baseUrl, jestWorker, cache, resolved, dlIn, pmdVersion, cachedPmdPath,
                   pmdRelease, pathToZipDistribution, pmdExtractedFolder, dlEffects>>

\* the caller has the outcome; the run is over
DlReturn(r) ==
    /\ dlPc[r] = "done"
    /\ resolved' =
         IF /\ dlResult[r].status = "ok"
            /\ dlIn[r].downloadUrl \in {None, <<>>}
            /\ dlIn[r].version # Latest
            /\ resolved[dlIn[r].version] = NoResult
         THEN [resolved EXCEPT ![dlIn[r].version] = dlResult[r]]
         ELSE resolved
    /\ dlPc' = [dlPc EXCEPT ![r] = "idle"]
    /\ dlIn' = [dlIn EXCEPT ![r] = NoDlIn]
    /\ pmdVersion' = [pmdVersion EXCEPT ![r] = <<>>]
    /\ cachedPmdPath' = [cachedPmdPath EXCEPT ![r] = <<>>]
    /\ pmdRelease' = [pmdRelease EXCEPT ![r] = NoRelease]
    /\ pathToZipDistribution' = [pathToZipDistribution EXCEPT ![r] = <<>>]
    /\ pmdExtractedFolder' = [pmdExtractedFolder EXCEPT ![r] = <<>>]
    /\ dlEffects' = [dlEffects EXCEPT ![r] = <<>>]
    /\ dlResult' = [dlResult EXCEPT ![r] = NoResult]
    /\ UNCHANGED dlOthers
    /\ UNCHANGED <<baseUrl, jestWorker, cache>>

DlIdle ==
    /\ cache = [v \in {} |-> <<>>]
    /\ resolved = [v \in Released |-> NoResult]
    /\ dlPc = [r \in Runs |-> "idle"]
    /\ dlIn = [r \in Runs |-> NoDlIn]
    /\ pmdVersion = [r \in Runs |-> <<>>]
    /\ cachedPmdPath = [r \in Runs |-> <<>>]
    /\ pmdRelease = [r \in Runs |-> NoRelease]
    /\ pathToZipDistribution = [r \in Runs |-> <<>>]
    /\ pmdExtractedFolder = [r \in Runs |-> <<>>]
    /\ dlEffects = [r \in Runs |-> <<>>]
    /\ dlResult = [r \in Runs |-> NoResult]

DlInit ==
    /\ baseUrl \in BaseUrls
    /\ jestWorker \in BOOLEAN
    /\ DlIdle

DlQuiet ==
    /\ baseUrl = PUBLIC_GITHUB_API_URL
    /\ jestWorker = FALSE
    /\ DlIdle

DlStep(r) ==
    \/ DlCall(r)
    \/ DlRelease(r)
    \/ DlDownloaded(r)
    \/ DlExtracted(r)
    \/ DlCached(r)
    \/ DlUrlDownloaded(r)
    \/ DlUrlExtracted(r)
    \/ DlUrlListed(r)
    \/ DlFail(r)
    \/ DlReturn(r)

(***************************************************************************)
(* determineModifiedFiles.  A file name is a string of name tokens and     *)
(* "/" separators; "java2" is the tokens "java", "2".                      *)
(***************************************************************************)
MAX_PAGE == 10
PER_PAGE == 30

EventNames == {"pull_request", "push", "workflow_dispatch", "schedule"}
ModSourcePaths ==
    {<<".">>,
     <<"src", "/", "main", "/", "java">>,
     <<"src", "/", "main", "/", "java", "/">>,
     <<"README.md">>}
\* the change entries the diff APIs may return
DiffEntries ==
    {[filename |-> <<"src", "/", "main", "/", "java", "/", "A.java">>, status |-> "added"],
     [filename |-> <<"src", "/", "main", "/", "java", "/", "A.java">>, status |-> "removed"],
     [filename |-> <<"src", "/", "main", "/", "java", "/", ".", "/", "A.java">>, status |-> "modified"],
     [filename |-> <<"src", "/", "main", "/", "java", "2", "/", "B.java">>, status |-> "changed"],
     [filename |-> <<"src", "/", "main", "/", "java", "/", "C.java">>, status |-> "renamed"],
     [filename |-> <<"README.md">>, status |-> "modified"]}
\* the non-empty pages a request may be answered with
DiffPages == SeqsUpTo(DiffEntries, MaxPageLen) \ {<<>>}

NoModIn == [eventName |-> "none"]
\* a slip: an empty list for an event without a change set
Undefined_emptyList == [status |-> "ok", value |-> <<>>]

\* line 341: return undefined
Undefined == [status |-> "ok", value |-> None]
FileList(list) == [status |-> "ok", value |-> list]

RECURSIVE Split(_, _)
\* String.prototype.split: the pieces of s between the sep tokens
Split(s, sep) ==
    IF \A i \in 1..Len(s) : s[i] # sep THEN <<s>>
    ELSE LET k == CHOOSE i \in 1..Len(s) : s[i] = sep /\ \A j \in 1..(i - 1) : s[j] # sep
         IN <<SubSeq(s, 1, k - 1)>> \o Split(SubSeq(s, k + 1, Len(s)), sep)

RECURSIVE NormalizeString(_, _, _)
\* path.posix normalizeString: '.' and empty segments dropped, '..' resolved
NormalizeString(segments, res, allowAboveRoot) ==
    IF segments = <<>> THEN res
    ELSE LET seg == Head(segments)
             rest == Tail(segments)
         IN IF seg = <<>> \/ seg = <<".">> THEN NormalizeString(rest, res, allowAboveRoot)
            ELSE IF seg = <<"..">>
            THEN IF res # <<>> /\ res[Len(res)] # <<"..">>
                 THEN NormalizeString(rest, SubSeq(res, 1, Len(res) - 1), allowAboveRoot)
                 ELSE IF allowAboveRoot
                 THEN NormalizeString(rest, Append(res, seg), allowAboveRoot)
                 ELSE NormalizeString(rest, res, allowAboveRoot)
            ELSE NormalizeString(rest, Append(res, seg), allowAboveRoot)

\* path.normalize
Normalize(path) ==
    IF path = <<>> THEN <<".">>
    ELSE LET isAbsolute == path[1] = "/"
             trailingSeparator == path[Len(path)] = "/"
             body == Join(NormalizeString(Split(path, "/"), <<>>, ~isAbsolute), <<"/">>)
         IN IF body = <<>>
            THEN (IF isAbsolute THEN <<"/">>
                  ELSE IF trailingSeparator THEN <<".", "/">> ELSE <<".">>)
            ELSE (IF isAbsolute THEN <<"/">> ELSE <<>>)
                    \o body \o (IF trailingSeparator THEN <<"/">> ELSE <<>>)

\* String.prototype.startsWith
StartsWith(s, prefix) ==
    Len(prefix) <= Len(s) /\ SubSeq(s, 1, Len(prefix)) = prefix

\* [i |-> f(seq[i])]: Array.prototype.map with path.normalize
MapNormalize(seq) == [i \in 1..Len(seq) |-> Normalize(seq[i].filename)]

\* a slip: every status but 'removed' is taken to have content
HasContent_notRemoved(f) == f.status # "removed"

\* lines 359-364: the statuses of an entry whose file has content to analyze
HasContent(f) == f.status = "added" \/ f.status = "changed" \/ f.status = "modified"

\* a slip: the source path is normalized without the added separator
WithTrailingSlash_bare(sourcePath) ==
    IF sourcePath # <<".">> THEN Normalize(sourcePath) ELSE sourcePath

\* lines 357-358: "add trailing slash"
WithTrailingSlash(sourcePath) ==
    IF sourcePath # <<".">> THEN Normalize(sourcePath \o <<"/">>) ELSE sourcePath

\* a slip: '.' is treated as a prefix like any other
UnderSourcePath_noSentinel(f, sourcePath) == StartsWith(f, sourcePath)

\* line 366: the path filter, sourcePath being the value with the separator
UnderSourcePath(f, sourcePath) == sourcePath = <<".">> \/ StartsWith(f, sourcePath)

\* lines 357-368
extractFilenames(allFiles, sourcePath) ==
    LET prefix == WithTrailingSlash(sourcePath)
        Under(f) == UnderSourcePath(f, prefix)
    IN SelectSeq(MapNormalize(SelectSeq(allFiles, HasContent)), Under)

RECURSIVE AddAll_front(_, _)
\* a slip: a new name is put in front of the names already there
AddAll_front(set, names) ==
    IF names = <<>> THEN set
    ELSE IF \E i \in 1..Len(set) : set[i] = Head(names) THEN AddAll_front(set, Tail(names))
    ELSE AddAll_front(<<Head(names)>> \o set, Tail(names))

RECURSIVE AddAll(_, _)
\* lines 293-295: Set.prototype.add of each name, insertion order kept
AddAll(set, names) ==
    IF names = <<>> THEN set
    ELSE IF \E i \in 1..Len(set) : set[i] = Head(names) THEN AddAll(set, Tail(names))
    ELSE AddAll(Append(set, Head(names)), Tail(names))

\* the request of a page: lines 282-287 and 315-320
PageRequest(eventName, p) ==
    [api |-> IF eventName = "pull_request" THEN "pulls.listFiles"
             ELSE "repos.compareCommitsWithBasehead",
     per_page |-> PER_PAGE, page |-> p]

\* a slip: one page too many
LoopContinues_oneMore(p) == p <= MAX_PAGE + 1

\* lines 280 and 313: the loop condition
LoopContinues(p) == p <= MAX_PAGE

\* a slip: the warning only once the loop has run past MAX_PAGE + 1
TooBig_never(p) == p > MAX_PAGE + 1

\* lines 297 and 330
TooBig(p) == p >= MAX_PAGE

\* lines 297-303 and 330-336: the loop is left with page = p and the set names
Finish(p, names) ==
    /\ warnings' = IF TooBig(p) THEN Append(warnings, "too big - not all changed files will be analyzed")
                   ELSE warnings
    /\ modResult' = FileList(names)
    /\ modPc' = "done"

\* determineModifiedFiles is called: lines 252-287 (or 304-320, or 337-341),
\* up to the first await
ModCall ==
    /\ modPc = "idle"
    /\ \E eventName \in EventNames, sourcePath \in ModSourcePaths :
        /\ modIn' = [eventName |-> eventName, sourcePath |-> sourcePath]
        /\ modifiedFilenames' = <<>>
        /\ modResponses' = <<>>
        /\ fetched' = {}
        /\ IF eventName \in {"pull_request", "push"}
           THEN /\ page' = 1
                /\ modRequests' = <<PageRequest(eventName, 1)>>
                /\ warnings' = <<>>
                /\ modResult' = NoResult
                /\ modPc' = "page"
           ELSE /\ page' = 0
                /\ modRequests' = <<>>
                /\ warnings' = <<"Unsupported github action event - cannot determine modified files">>
                /\ modResult' = Undefined
                /\ modPc' = "done"
    /\ UNCHANGED modOthers

\* lines 288-296 and 321-329: a page of entries is received and added to the
\* set; the next page is requested, or the loop ends after page MAX_PAGE
ModPage ==
    /\ modPc = "page"
    /\ \E allFiles \in DiffPages :
        /\ modResponses' = Append(modResponses, "files")
        /\ fetched' = fetched \cup {allFiles[i] : i \in 1..Len(allFiles)}
        /\ modifiedFilenames' =
                AddAll(modifiedFilenames, extractFilenames(allFiles, modIn.sourcePath))
        /\ page' = page + 1
        /\ IF LoopContinues(page + 1)
           THEN /\ modRequests' = Append(modRequests, PageRequest(modIn.eventName, page + 1))
                /\ UNCHANGED <<warnings, modResult, modPc>>
           ELSE /\ Finish(page + 1, AddAll(modifiedFilenames, extractFilenames(allFiles, modIn.sourcePath)))
                /\ UNCHANGED modRequests
    /\ UNCHANGED modIn
    /\ UNCHANGED modOthers

\* a slip: the push loop reads the length of an absent file list
ModEmptyPage_absentFails ==
    /\ modPc = "page"
    /\ \E answer \in {"empty", "undefined"} :
        /\ answer = "undefined" => modIn.eventName = "push"
        /\ modResponses' = Append(modResponses, answer)
        /\ IF answer = "undefined"
           THEN modResult' = Failed("TypeError") /\ modPc' = "done" /\ UNCHANGED warnings
           ELSE Finish(page, modifiedFilenames)
    /\ UNCHANGED <<modIn, page, modifiedFilenames, modRequests, fetched>>
    /\ UNCHANGED modOthers

\* lines 289-291 and 322-324: an empty page, or for a push a response without
\* files, is received: the loop is left by break
ModEmptyPage ==
    /\ modPc = "page"
    /\ \E answer \in {"empty", "undefined"} :
        /\ answer = "undefined" => modIn.eventName = "push"
        /\ modResponses' = Append(modResponses, answer)
    /\ Finish(page, modifiedFilenames)
    /\ UNCHANGED <<modIn, page, modifiedFilenames, modRequests, fetched>>
    /\ UNCHANGED modOthers

\* a slip: the error is swallowed and the names gathered so far are returned
ModPageFails_partial ==
    /\ modPc = "page"
    /\ modResponses' = Append(modResponses, "error")
    /\ modResult' = FileList(modifiedFilenames)
    /\ modPc' = "done"
    /\ UNCHANGED <<modIn, page, modifiedFilenames, modRequests, fetched, warnings>>
    /\ UNCHANGED modOthers

\* the awaited page request is rejected: the error leaves determineModifiedFiles
ModPageFails ==
    /\ modPc = "page"
    /\ modResponses' = Append(modResponses, "error")
    /\ modResult' = Failed("HttpError")
    /\ modPc' = "done"
    /\ UNCHANGED <<modIn, page, modifiedFilenames, modRequests, fetched, warnings>>
    /\ UNCHANGED modOthers

\* the caller has the outcome
ModReturn ==
    /\ modPc = "done"
    /\ modPc' = "idle"
    /\ modIn' = NoModIn
    /\ page' = 0
    /\ modifiedFilenames' = <<>>
    /\ modRequests' = <<>>
    /\ modResponses' = <<>>
    /\ fetched' = {}
    /\ warnings' = <<>>
    /\ modResult' = NoResult
    /\ UNCHANGED modOthers

ModInit ==
    /\ modPc = "idle"
    /\ modIn = NoModIn
    /\ page = 0
    /\ modifiedFilenames = <<>>
    /\ modRequests = <<>>
    /\ modResponses = <<>>
    /\ fetched = {}
    /\ warnings = <<>>
    /\ modResult = NoResult

(***************************************************************************)
(* Specifications.                                                         *)
(***************************************************************************)
Init == ExecInit /\ DlInit /\ ModInit

ExecNext == ExecCall \/ ExecWriteFileList \/ ExecLaunch \/ ExecReturn

\* one run at a time resolves the tool
DlNext == \E r \in {1} : DlStep(r)

ModNext == ModCall \/ ModPage \/ ModEmptyPage \/ ModPageFails \/ ModReturn

InitExec == ExecInit /\ DlQuiet /\ ModInit

InitDownload == ExecQuiet /\ DlInit /\ ModInit

InitModified == ExecQuiet /\ DlQuiet /\ ModInit

\* determineModifiedFiles alone
SpecModified == InitModified /\ [][ModNext]_vars

\* executePmd alone
SpecExec == InitExec /\ [][ExecNext]_vars

\* sequential calls of downloadPmd over one tool cache
SpecDownload == InitDownload /\ [][DlNext]_vars

\* a step of a run that calls downloadPmd once and ends with its outcome
DlRun(r) ==
    \/ DlCall(r)
    \/ DlRelease(r)
    \/ DlDownloaded(r)
    \/ DlExtracted(r)
    \/ DlCached(r)
    \/ DlUrlDownloaded(r)
    \/ DlUrlExtracted(r)
    \/ DlUrlListed(r)
    \/ DlFail(r)

\* two runs resolve the tool over one tool cache, their steps interleaved
DlConcurrentNext == \E r \in Runs : DlRun(r)

SpecConcurrent == InitDownload /\ [][DlConcurrentNext]_vars

Next == ExecNext \/ DlNext \/ ModNext

Spec == Init /\ [][Next]_vars

(***************************************************************************)
(* Properties of executePmd.                                               *)
(***************************************************************************)
\* the version a version string denotes, by its canonical form
VersionOf(s) == CHOOSE v \in SemVers : Format(v) = s

\* v >= 6.41.0 in semantic-version order
AtLeast6410(v) ==
    \/ v.major > 6
    \/ v.major = 6 /\ v.minor > 41
    \/ v.major = 6 /\ v.minor = 41 /\ v.patch > 0
    \/ v.major = 6 /\ v.minor = 41 /\ v.patch = 0 /\ v.prerelease = <<>>

\* the launches among the effects of the running call
Launches == {i \in 1..Len(execEffects) : execEffects[i].op = "exec"}

RECURSIVE Pieces(_, _)
\* s cut at every sep token
Pieces(s, sep) ==
    IF \A i \in 1..Len(s) : s[i] # sep THEN <<s>>
    ELSE LET k == CHOOSE i \in 1..Len(s) : s[i] = sep /\ \A j \in 1..(i - 1) : s[j] # sep
         IN <<SubSeq(s, 1, k - 1)>> \o Pieces(SubSeq(s, k + 1, Len(s)), sep)

\* C1: with an explicit source path, the tool is launched with exactly
\* [NOCACHE, -d, path, -f, reportFormat, -R, ruleset, -r, reportFile,
\* --minimum-priority, minimumPriority], NOCACHE being --no-cache iff the
\* version is >= 6.41.0 and -no-cache otherwise.
C1_ExplicitPathArgs ==
    \A i \in Launches :
        ~execIn.fileListOrSourcePath.isArray =>
            execEffects[i].args =
                <<IF AtLeast6410(VersionOf(execIn.pmdInfo.version))
                      THEN <<"--no-cache">> ELSE <<"-no-cache">>,
                  <<"-d">>, execIn.fileListOrSourcePath.value,
                  <<"-f">>, execIn.reportFormat,
                  <<"-R">>, execIn.ruleset,
                  <<"-r">>, execIn.reportFile,
                  <<"--minimum-priority">>, execIn.minimumPriority>>

\* a prerelease of 6.41.0 was launched on an explicit path with the old flag
C1_Witness ==
    /\ execPc = "done"
    /\ ~execIn.fileListOrSourcePath.isArray
    /\ execIn.pmdInfo.version = <<"6", ".", "41", ".", "0", "-", "rc1">>
    /\ execEffects[1].op = "exec"
    /\ execEffects[1].args[1] = <<"-no-cache">>

\* C2: with a file list, pmd.filelist is written first, its content the
\* elements joined by ',' in list order, and only then the tool is launched,
\* with (--file-list | -filelist, pmd.filelist) as source selector and no -d.
C2_FileListWrittenBeforeLaunch ==
    \A i \in Launches :
        execIn.fileListOrSourcePath.isArray =>
            LET list == execIn.fileListOrSourcePath.value
                args == execEffects[i].args
            IN /\ i = 2
               /\ execEffects[1].op = "writeFile"
               /\ execEffects[1].file = <<"pmd.filelist">>
               /\ execEffects[1].data = files["pmd.filelist"]
               /\ IF list = <<>> THEN execEffects[1].data = <<>>
                  ELSE Pieces(execEffects[1].data, ",") = list
               /\ args[2] = (IF AtLeast6410(VersionOf(execIn.pmdInfo.version))
                                 THEN <<"--file-list">> ELSE <<"-filelist">>)
               /\ args[3] = <<"pmd.filelist">>
               /\ \A k \in 1..Len(args) : args[k] # <<"-d">>

\* a list of two files was written and the tool launched on it
C2_Witness ==
    /\ execPc = "done"
    /\ execIn.fileListOrSourcePath.isArray
    /\ Len(execIn.fileListOrSourcePath.value) = 2
    /\ execIn.fileListOrSourcePath.value[1] # execIn.fileListOrSourcePath.value[2]
    /\ Len(execEffects) = 2
    /\ execEffects[2].op = "exec"

\* the entry point C3 names for a version on a platform
EntryPoint(v, plat) ==
    IF plat = "win32" THEN "\\bin\\pmd.bat"
    ELSE IF v.major >= 7 THEN "/bin/pmd" ELSE "/bin/run.sh pmd"

\* C3: the executable is path + \bin\pmd.bat on win32 whatever the
\* version, else path + /bin/pmd for a major version >= 7 and
\* path + /bin/run.sh pmd otherwise.
C3_EntryPoint ==
    \A i \in Launches :
        LET cmd == execEffects[i].commandLine
            path == execIn.pmdInfo.path
        IN /\ Len(cmd) > Len(path)
           /\ SubSeq(cmd, 1, Len(path) + 1) =
                  path \o <<EntryPoint(VersionOf(execIn.pmdInfo.version), platform)>>

\* a version 7 was launched on win32
C3_Witness ==
    /\ execPc = "done"
    /\ platform = "win32"
    /\ VersionOf(execIn.pmdInfo.version).major >= 7
    /\ Launches # {}

\* the whole invocation: the command line, then the arguments
Invocation(e) == e.commandLine \o Join(e.args, <<>>)

\* C4: 'check --no-progress' is emitted iff the major version is >= 7, on
\* every platform, right after the executable and before the no-cache flag.
C4_CheckSubcommand ==
    \A i \in Launches :
        LET inv == Invocation(execEffects[i])
            v == VersionOf(execIn.pmdInfo.version)
            n == Len(execIn.pmdInfo.path) + 1
            noCache == {"--no-cache", "-no-cache"}
        IN IF v.major >= 7
           THEN /\ inv[n + 1] = " check --no-progress"
                /\ inv[n + 2] \in noCache
                /\ \A k \in 1..Len(inv) : k # n + 1 => inv[k] # " check --no-progress"
           ELSE /\ \A k \in 1..Len(inv) : inv[k] # " check --no-progress"
                /\ inv[n + 1] \in noCache

\* the release candidate 7.0.0-rc1 was launched on win32
C4_Witness ==
    /\ execPc = "done"
    /\ platform = "win32"
    /\ execIn.pmdInfo.version = <<"7", ".", "0", ".", "0", "-", "rc1">>
    /\ ~execIn.fileListOrSourcePath.isArray
    /\ Launches # {}
    /\ execEffects[1].commandLine[3] = " check --no-progress"
(***************************************************************************)
(* Properties of downloadPmd.                                              *)
(***************************************************************************)
\* the effects of run r with the given op
EffectsOf(r, op) == {i \in 1..Len(dlEffects[r]) : dlEffects[r][i].op = op}

UrlGiven(in) == in.downloadUrl # None /\ in.downloadUrl # <<>>

\* run r is in a call that asks for 'latest' together with a download url
ConflictingCall(r) == dlPc[r] # "idle" /\ dlIn[r].version = Latest /\ UrlGiven(dlIn[r])

\* C5: 'latest' with a non-empty download url fails before any cache lookup,
\* registry query or download, and the cache stays as it is; 'latest' with an
\* undefined or empty download url is accepted and takes the registry path.
C5_LatestWithUrlRejected ==
    /\ [](\A r \in Runs :
            dlPc[r] # "idle" /\ dlIn[r].version = Latest =>
                IF UrlGiven(dlIn[r])
                THEN /\ dlPc[r] = "done"
                     /\ dlResult[r].status = "error"
                     /\ dlEffects[r] = <<>>
                ELSE /\ Len(dlEffects[r]) >= 2
                     /\ dlEffects[r][1].op = "find"
                     /\ dlEffects[r][2].op = "registry"
                     /\ dlEffects[r][2].route = <<"repos/pmd/pmd/releases/latest">>
                     /\ EffectsOf(r, "download") \subseteq 3..Len(dlEffects[r]))
    /\ [][\A r \in Runs : ConflictingCall(r) \/ ConflictingCall(r)' => cache' = cache]_vars

\* a call with 'latest' and a download url has failed over a cache that holds a version
C5_Witness ==
    /\ dlPc[1] = "done"
    /\ dlIn[1].version = Latest
    /\ dlIn[1].downloadUrl = <<"https://example.org/download">>
    /\ dlResult[1].status = "error"
    /\ DOMAIN cache # {}

\* the ToolInfo C6 and C7 name for a version
ToolInfoOf(version) ==
    PmdInfo(version,
            <<"RUNNER_TOOL_CACHE", "/", "pmd", "/">> \o version \o <<"/", "x64", "/", "pmd-bin-">> \o version)

\* C6: once a resolve of a concrete version V without download url has
\* succeeded, every later resolve of V finds the cache entry, asks the
\* registry nothing, downloads nothing and returns the same ToolInfo.
C6_CacheHitAfterResolve ==
    \A r \in Runs :
        /\ dlPc[r] # "idle"
        /\ ~UrlGiven(dlIn[r])
        /\ dlIn[r].version \in Released
        /\ resolved[dlIn[r].version] # NoResult
        => /\ dlPc[r] = "done"
           /\ dlEffects[r] = <<[op |-> "find", version |-> dlIn[r].version]>>
           /\ dlResult[r] = resolved[dlIn[r].version]
           /\ dlResult[r] = ToolInfoOf(dlIn[r].version)

\* a second resolve of 7.0.0-rc1 has returned
C6_Witness ==
    /\ dlPc[1] = "done"
    /\ dlIn[1].version = <<"7", ".", "0", ".", "0", "-", "rc1">>
    /\ ~UrlGiven(dlIn[1])
    /\ resolved[dlIn[1].version] # NoResult
    /\ dlResult[1].status = "ok"

\* run r has returned from a resolve that missed the cache
MissResolved(r) ==
    /\ dlPc[r] = "done"
    /\ dlResult[r].status = "ok"
    /\ ~UrlGiven(dlIn[r])
    /\ EffectsOf(r, "registry") # {}

\* C7: on a cache miss the version returned is the release's tag_name without
\* the 'pmd_releases/' prefix and the path is that version's cache directory
\* + '/pmd-bin-' + version, the artifact being stored under that version;
\* 'latest' is neither returned as version nor used as cache key.
C7_MissReturnsReleaseVersion ==
    /\ Latest \notin DOMAIN cache
    /\ \A r \in Runs :
        MissResolved(r) =>
            LET tag == pmdRelease[r].data.tag_name
            IN /\ tag = <<"pmd_releases/">> \o dlResult[r].version
               /\ dlResult[r] = ToolInfoOf(dlResult[r].version)
               /\ dlResult[r].version # Latest
               /\ dlResult[r].version \in DOMAIN cache
               /\ \E i \in EffectsOf(r, "cacheDir") :
                    dlEffects[r][i].version = dlResult[r].version

\* a request for 'latest' has been resolved to 6.40.0
C7_Witness ==
    /\ MissResolved(1)
    /\ dlIn[1].version = Latest
    /\ dlResult[1].version = <<"6", ".", "40", ".", "0">>

\* C8: the release lookup goes to https://api.github.com, and carries the
\* token iff the configured API base url is that endpoint; with an overridden
\* base url the lookup is unauthenticated.
C8_RegistryAccess ==
    \A r \in Runs : \A i \in EffectsOf(r, "registry") :
        /\ dlEffects[r][i].baseUrl = <<"https://api.github.com">>
        /\ IF baseUrl = <<"https://api.github.com">>
           THEN dlEffects[r][i].auth = dlIn[r].token
           ELSE dlEffects[r][i].auth = None

\* outside a unit test, with an overridden base url, the registry was asked
C8_Witness ==
    /\ baseUrl # <<"https://api.github.com">>
    /\ ~jestWorker
    /\ EffectsOf(1, "registry") # {}
    /\ dlResult[1].status = "ok"
(***************************************************************************)
(* Properties of determineModifiedFiles.                                   *)
(***************************************************************************)
Paginated == modPc # "idle" /\ modIn.eventName \in {"pull_request", "push"}

\* the answers that end the loop as an empty page does
EmptyAnswers == {i \in 1..Len(modResponses) : modResponses[i] \in {"empty", "undefined"}}

\* C9: for pull_request and push the pages are requested in the order 1, 2,
\* 3, ... with page size 30, page p+1 only after page p came back non-empty,
\* none after the first empty page and never more than 10; if the first
\* empty page is page k <= 10, exactly k requests are made.
C9_Pagination ==
    Paginated =>
        /\ \A i \in 1..Len(modRequests) :
             /\ modRequests[i].page = i
             /\ modRequests[i].per_page = 30
             /\ modRequests[i].api = (IF modIn.eventName = "pull_request" THEN "pulls.listFiles"
                                      ELSE "repos.compareCommitsWithBasehead")
        /\ Len(modRequests) >= 1
        /\ Len(modRequests) <= 10
        /\ Len(modResponses) <= Len(modRequests)
        /\ Len(modRequests) <= Len(modResponses) + 1
        /\ \A i \in 1..(Len(modRequests) - 1) : modResponses[i] = "files"
        /\ \A k \in EmptyAnswers : Len(modRequests) = k /\ modPc = "done"
        /\ (modPc = "done" /\ \A i \in 1..Len(modResponses) : modResponses[i] = "files")
              => Len(modRequests) = 10

\* a push whose third page came back without files has returned after three requests
C9_Witness ==
    /\ modPc = "done"
    /\ modIn.eventName = "push"
    /\ Len(modRequests) = 3
    /\ modResponses = <<"files", "files", "undefined">>
    /\ modResult.status = "ok"

\* the segments of a path, '.' and empty segments left out
Segments(path) ==
    LET Named(seg) == seg # <<>> /\ seg # <<".">>
    IN SelectSeq(Pieces(path, "/"), Named)

\* a fetched entry the filter keeps: its status says the file has content and
\* the file lies under the source path ('.' is above every file)
Kept(entry, sourcePath) ==
    /\ entry.status \in {"added", "changed", "modified"}
    /\ \/ sourcePath = <<".">>
       \/ /\ Len(Segments(sourcePath)) < Len(Segments(entry.filename))
          /\ SubSeq(Segments(entry.filename), 1, Len(Segments(sourcePath))) = Segments(sourcePath)

\* the name of a file as its segments joined by '/'
CleanName(path) == Join(Segments(path), <<"/">>)

AllTenFull ==
    /\ Paginated
    /\ modPc = "done"
    /\ Len(modResponses) = 10
    /\ \A i \in 1..10 : modResponses[i] = "files"

\* C10: when all 10 pages come back non-empty, a truncation warning is
\* emitted and the call still returns, without error, the filtered,
\* deduplicated filenames gathered from those pages.
C10_TruncationWarning ==
    AllTenFull =>
        /\ Len(warnings) = 1
        /\ modResult.status = "ok"
        /\ modResult.value # None
        /\ \A i, j \in 1..Len(modResult.value) :
             modResult.value[i] = modResult.value[j] => i = j
        /\ {modResult.value[i] : i \in 1..Len(modResult.value)} =
             {CleanName(e.filename) : e \in {f \in fetched : Kept(f, modIn.sourcePath)}}

\* ten full pages of a pull request under src/main/java gave one file, other entries dropped
C10_Witness ==
    /\ AllTenFull
    /\ modIn.eventName = "pull_request"
    /\ modIn.sourcePath = <<"src", "/", "main", "/", "java">>
    /\ Len(modResult.value) = 1
    /\ Cardinality(fetched) >= 3

\* C11: whenever the pagination stops because a page is empty (any page k
\* with 1 <= k <= MAX_PAGE, page MAX_PAGE included), no truncation warning
\* is emitted, for the pull_request loop and for the push loop.
C11_NoWarningOnEmptyStop ==
    (Paginated /\ modPc = "done" /\ EmptyAnswers # {}) => warnings = <<>>

\* the call has returned a list of filenames
ReturnedList == Paginated /\ modPc = "done" /\ modResult.status = "ok"

\* the names in a list
Names(list) == {list[i] : i \in 1..Len(list)}

\* the names of the fetched entries whose status says the file has content
ContentNames ==
    {CleanName(e.filename) : e \in {f \in fetched : f.status \in {"added", "changed", "modified"}}}

\* C12: every returned filename comes from at least one change entry whose
\* status is 'added', 'changed' or 'modified'; a file whose only entries are
\* 'removed', 'renamed' or of another status never appears, on any page and
\* for either event kind.
C12_OnlyContentStatuses ==
    /\ Paginated => Names(modifiedFilenames) \subseteq ContentNames
    /\ ReturnedList => Names(modResult.value) \subseteq ContentNames

\* a push returned README.md although a removed A.java and a renamed C.java
\* were among the entries of its pages
C12_Witness ==
    /\ ReturnedList
    /\ modIn.eventName = "push"
    /\ modIn.sourcePath = <<".">>
    /\ \E e \in fetched : e.status = "removed"
    /\ \E e \in fetched : e.status = "renamed"
    /\ modResult.value = <<<<"README.md">>>>

\* a name is written in normal form: no empty and no '.' segment
IsNormalized(name) == name = CleanName(name)

\* a name equal to the source path or in a directory below it, by segments
EqualOrUnder(name, sourcePath) ==
    /\ Len(Segments(sourcePath)) <= Len(Segments(name))
    /\ SubSeq(Segments(name), 1, Len(Segments(sourcePath))) = Segments(sourcePath)

\* the other spelling of a source path: with the trailing separator, or without
Twin(sourcePath) ==
    IF sourcePath[Len(sourcePath)] = "/" THEN SubSeq(sourcePath, 1, Len(sourcePath) - 1)
    ELSE sourcePath \o <<"/">>

Java2File == <<"src", "/", "main", "/", "java", "2", "/", "B.java">>

\* the pages made of one or two of the entries fetched so far
FetchedPages == {<<e>> : e \in fetched} \cup {<<e1, e2>> : e1 \in fetched, e2 \in fetched}

\* C13: for a sourcePath other than '.', every returned filename is
\* normalized and equal to or nested under sourcePath; a file in a sibling
\* directory that only has sourcePath as a string prefix (src/main/java2
\* for src/main/java) is never returned; and the entries that arrived give
\* the same names when sourcePath is spelled the other way, with or without
\* the trailing separator.
C13_UnderSourcePath ==
    (Paginated /\ modIn.sourcePath # <<".">>) =>
        /\ \A n \in Names(modifiedFilenames) :
                IsNormalized(n) /\ EqualOrUnder(n, modIn.sourcePath)
        /\ ReturnedList => modResult.value = modifiedFilenames
        /\ Segments(modIn.sourcePath) = <<<<"src">>, <<"main">>, <<"java">>>>
                => Java2File \notin Names(modifiedFilenames)
        /\ \A p \in FetchedPages :
                extractFilenames(p, modIn.sourcePath) = extractFilenames(p, Twin(modIn.sourcePath))

\* with src/main/java/ the entry src/main/java/./A.java was returned as
\* src/main/java/A.java and the entry of src/main/java2 was dropped
C13_Witness ==
    /\ ReturnedList
    /\ modIn.sourcePath = <<"src", "/", "main", "/", "java", "/">>
    /\ [filename |-> Java2File, status |-> "changed"] \in fetched
    /\ [filename |-> <<"src", "/", "main", "/", "java", "/", ".", "/", "A.java">>,
        status |-> "modified"] \in fetched
    /\ modResult.value = <<<<"src", "/", "main", "/", "java", "/", "A.java">>>>

\* the names of the fetched entries with a content status whose normalized
\* filename is the source path or lies below it
ExpectedUnder(sourcePath) ==
    {CleanName(e.filename) : e \in {f \in fetched :
        /\ f.status \in {"added", "changed", "modified"}
        /\ EqualOrUnder(CleanName(f.filename), sourcePath)}}

\* C14: for a sourcePath other than '.', each fetched entry with status
\* added, changed or modified whose normalized filename equals sourcePath
\* or lies below it appears in the result.
C14_KeepsEqualOrNested ==
    (ReturnedList /\ modIn.sourcePath # <<".">>) =>
        ExpectedUnder(modIn.sourcePath) \subseteq Names(modResult.value)

\* the same for the entries strictly below sourcePath
NestedEntriesKept ==
    (ReturnedList /\ modIn.sourcePath # <<".">>) =>
        {n \in ExpectedUnder(modIn.sourcePath) : n # CleanName(modIn.sourcePath)}
            \subseteq Names(modResult.value)

\* C15: when sourcePath is '.', the path filter removes nothing: every
\* fetched entry with status added, changed or modified appears, normalized,
\* in the result, whatever its directory.
C15_CurrentDirKeepsAll ==
    /\ (Paginated /\ modIn.sourcePath = <<".">>) =>
            ContentNames \subseteq Names(modifiedFilenames)
    /\ (ReturnedList /\ modIn.sourcePath = <<".">>) =>
            /\ ContentNames \subseteq Names(modResult.value)
            /\ \A n \in Names(modResult.value) : IsNormalized(n)

\* with '.' a pull request returned files of three directories, the one
\* written with a '.' segment in normal form
C15_Witness ==
    /\ ReturnedList
    /\ modIn.eventName = "pull_request"
    /\ modIn.sourcePath = <<".">>
    /\ [filename |-> <<"src", "/", "main", "/", "java", "/", ".", "/", "A.java">>,
        status |-> "modified"] \in fetched
    /\ Names(modResult.value) =
            {<<"README.md">>, Java2File, <<"src", "/", "main", "/", "java", "/", "A.java">>}

NoDuplicates(list) == \A i, j \in 1..Len(list) : list[i] = list[j] => i = j

IsPrefix(a, b) == Len(a) <= Len(b) /\ SubSeq(b, 1, Len(a)) = a

\* this step can be the arrival of the page p of entries; the page that did
\* arrive is one of these
Answered(p) ==
    /\ modPc = "page"
    /\ modResponses' = Append(modResponses, "files")
    /\ fetched' = fetched \cup {p[i] : i \in 1..Len(p)}
    /\ modifiedFilenames' = AddAll(modifiedFilenames, extractFilenames(p, modIn.sourcePath))

\* the entry of page p at position k has a content status and the name n
OccursAt(p, k, n) ==
    p[k].status \in {"added", "changed", "modified"} /\ CleanName(p[k].filename) = n

\* the position in page p of the first such entry
FirstKeptAt(p, n) ==
    CHOOSE k \in 1..Len(p) : OccursAt(p, k, n) /\ \A j \in 1..(k - 1) : ~OccursAt(p, j, n)

\* C16: the returned list contains no filename twice and is in
\* first-insertion order: a page leaves the names gathered so far where they
\* are, also those that occur on it again, and appends its new names in the
\* order of their first kept occurrence on the page.
C16_FirstInsertionOrder ==
    /\ [](Paginated => NoDuplicates(modifiedFilenames))
    /\ [](ReturnedList => modResult.value = modifiedFilenames /\ NoDuplicates(modResult.value))
    /\ [][modPc = "page" =>
            /\ IsPrefix(modifiedFilenames, modifiedFilenames')
            /\ Len(modifiedFilenames') >= Len(modifiedFilenames) + 2 =>
                  \A p \in DiffPages : Answered(p) =>
                      \A i, j \in (Len(modifiedFilenames) + 1)..Len(modifiedFilenames') :
                          i < j => FirstKeptAt(p, modifiedFilenames'[i])
                                      < FirstKeptAt(p, modifiedFilenames'[j])]_vars

\* A.java arrived under two spellings over three pages and is returned once,
\* before README.md and the file of src/main/java2
C16_Witness ==
    /\ ReturnedList
    /\ modIn.sourcePath = <<".">>
    /\ Len(modResponses) = 4
    /\ [filename |-> <<"src", "/", "main", "/", "java", "/", "A.java">>, status |-> "added"] \in fetched
    /\ [filename |-> <<"src", "/", "main", "/", "java", "/", ".", "/", "A.java">>,
        status |-> "modified"] \in fetched
    /\ modResult.value =
            <<<<"src", "/", "main", "/", "java", "/", "A.java">>, <<"README.md">>, Java2File>>

\* the call was made for an event that is neither pull_request nor push
UnsupportedCall == modPc = "done" /\ modIn.eventName \notin {"none", "pull_request", "push"}

\* C17: for every event kind other than pull_request and push the call
\* returns undefined, which is not the empty list, raises no error and
\* issues no diff-API request.
C17_UnsupportedEvent ==
    UnsupportedCall =>
        /\ modResult.status = "ok"
        /\ modResult.value = None
        /\ modResult.value # <<>>
        /\ modRequests = <<>>
        /\ modResponses = <<>>

\* a workflow_dispatch event got undefined
C17_Witness ==
    /\ UnsupportedCall
    /\ modIn.eventName = "workflow_dispatch"
    /\ modResult.value = None

\* the positions of the failed requests
Failures == {i \in 1..Len(modResponses) : modResponses[i] = "error"}

\* C18: if the request for a page p fails, the call ends in an error: it
\* returns no file list, not even the names gathered from the pages before,
\* no further page is requested and page p is not requested again.
C18_FailedPageAborts ==
    /\ [](\A k \in Failures :
            /\ modPc = "done"
            /\ modResult.status = "error"
            /\ k = Len(modResponses)
            /\ Len(modRequests) = k
            /\ \A i \in 1..k : (modRequests[i].page = k) = (i = k))
    /\ [][Failures # {} => Failures' = {} /\ modRequests' = <<>> /\ modPc' = "idle"]_vars

\* the third page of a push failed after names had been gathered
C18_Witness ==
    /\ modIn.eventName = "push"
    /\ modResponses = <<"files", "files", "error">>
    /\ modifiedFilenames # <<>>
    /\ modResult.status = "error"
    /\ Len(modRequests) = 3

(***************************************************************************)
(* Further properties of downloadPmd.                                      *)
(***************************************************************************)
\* run r, called without a download url, is downloading the release of its
\* version or writing that version's cache entry
Fetching(r) == dlPc[r] \in {"download", "extract", "cacheDir"} /\ ~UrlGiven(dlIn[r])

\* C19: over sequential resolve calls without a download url the cache entry
\* of a concrete version is written once: when V is in the cache, no call,
\* whether it asks for V or for 'latest' resolving to V, downloads V or
\* writes its cache entry again.
C19_CachedOnce ==
    \A r \in Runs : Fetching(r) => pmdVersion[r] \notin DOMAIN cache

\* the same for the calls that ask for a concrete version
ConcreteCachedOnce ==
    \A r \in Runs : Fetching(r) /\ dlIn[r].version # Latest => pmdVersion[r] \notin DOMAIN cache

\* run r is in a call with a download url and a concrete version
UrlCall(r) == dlPc[r] # "idle" /\ UrlGiven(dlIn[r]) /\ dlIn[r].version # Latest

\* C20: with a non-empty download url and a concrete version V the call asks
\* the registry nothing, neither reads nor writes the cache, downloads from
\* that url and returns V with the path of the first top-level entry of the
\* extracted archive; this is so for every such call, whatever was resolved
\* or cached before it.
C20_UrlBypassesCache ==
    /\ [](\A r \in Runs : UrlCall(r) =>
            /\ EffectsOf(r, "registry") = {}
            /\ EffectsOf(r, "find") = {}
            /\ EffectsOf(r, "cacheDir") = {}
            /\ EffectsOf(r, "download") = {1}
            /\ dlEffects[r][1].url = dlIn[r].downloadUrl
            /\ (dlPc[r] = "done" /\ dlResult[r].status = "ok") =>
                  /\ dlResult[r].version = dlIn[r].version
                  /\ \E i \in EffectsOf(r, "readdir"), entries \in ArchiveEntries :
                        dlResult[r].path = dlEffects[r][i].dir \o <<"/">> \o entries[1])
    /\ [][\A r \in Runs : UrlCall(r) => cache' = cache /\ resolved' = resolved]_vars

\* version 7.0.0 was asked for with a url while 7.0.0 was in the cache: the
\* archive of the url was downloaded and its first entry LICENSE returned
C20_Witness ==
    /\ UrlCall(1)
    /\ dlPc[1] = "done"
    /\ dlIn[1].version = <<"7", ".", "0", ".", "0">>
    /\ dlIn[1].version \in DOMAIN cache
    /\ dlResult[1].status = "ok"
    /\ dlResult[1].version = <<"7", ".", "0", ".", "0">>
    /\ dlResult[1].path = <<"RUNNER_TEMP", "/", "dir:">> \o dlIn[1].downloadUrl \o <<"/", "LICENSE">>

(***************************************************************************)
(* The two loops of determineModifiedFiles.                                *)
(***************************************************************************)
\* the answers received so far, an absent file list counted as an empty page
CountedAnswers ==
    [i \in 1..Len(modResponses) |->
        IF modResponses[i] = "undefined" THEN "empty" ELSE modResponses[i]]

\* after these answers a loop has stopped: an empty page, a failure, or ten pages
StopsAfter(answers) ==
    /\ answers # <<>>
    /\ answers[Len(answers)] \in {"empty", "error"} \/ Len(answers) = 10

\* the number of page requests a loop has made when it got these answers
RequestsAfter(answers) == IF StopsAfter(answers) THEN Len(answers) ELSE Len(answers) + 1

\* the names of the fetched entries the filter keeps
KeptNames == {CleanName(e.filename) : e \in {f \in fetched : Kept(f, modIn.sourcePath)}}

\* C21: the pull_request loop and the push loop are equivalent: the number
\* of page requests, the ordered file list and the presence of the
\* truncation warning are the same functions of the answers, the entries
\* and sourcePath for both, an absent file list of a push counting as an
\* empty page.
C21_LoopsEquivalent ==
    /\ [](\A eventName \in {"pull_request", "push"} :
            (modPc # "idle" /\ modIn.eventName = eventName) =>
                /\ Len(modRequests) = RequestsAfter(CountedAnswers)
                /\ (modPc = "done") = StopsAfter(CountedAnswers)
                /\ Names(modifiedFilenames) = KeptNames
                /\ (modPc = "done" /\ CountedAnswers[Len(CountedAnswers)] # "error") =>
                      /\ modResult = FileList(modifiedFilenames)
                      /\ (warnings # <<>>) = (Len(CountedAnswers) = 10)
                /\ (modPc = "done" /\ CountedAnswers[Len(CountedAnswers)] = "error") =>
                      modResult.status = "error" /\ warnings = <<>>)
    /\ [][(Paginated /\ modPc = "page") =>
            /\ IsPrefix(modifiedFilenames, modifiedFilenames')
            /\ CountedAnswers'[Len(CountedAnswers')] # "files" =>
                    modifiedFilenames' = modifiedFilenames
            /\ Len(modifiedFilenames') >= Len(modifiedFilenames) + 2 =>
                  \A p \in DiffPages : Answered(p) =>
                      \A i \in (Len(modifiedFilenames) + 1)..(Len(modifiedFilenames') - 1) :
                          FirstKeptAt(p, modifiedFilenames'[i])
                              < FirstKeptAt(p, modifiedFilenames'[i + 1])]_vars

\* a push whose second response had no file list returned the names of its
\* first page after two requests, without a warning
C21_Witness ==
    /\ modPc = "done"
    /\ modIn.eventName = "push"
    /\ modResponses = <<"files", "undefined">>
    /\ Len(modRequests) = 2
    /\ modResult.status = "ok"
    /\ modResult.value # <<>>
    /\ warnings = <<>>

(***************************************************************************)
(* Concurrent runs of downloadPmd.                                         *)
(***************************************************************************)
Other(r) == CHOOSE o \in Runs : o # r

\* run r is in a call for a concrete version without a download url
ConcreteCall(r) == dlPc[r] # "idle" /\ ~UrlGiven(dlIn[r]) /\ dlIn[r].version # Latest

\* both runs are in such calls, for different versions
Apart == ConcreteCall(1) /\ ConcreteCall(2) /\ dlIn[1].version # dlIn[2].version

\* run r is in such a call and the other run has not started
Alone(r) == ConcreteCall(r) /\ dlPc[Other(r)] = "idle"

\* the folder extracted from the archive that run r downloaded
OwnFolder(r) ==
    LET i == CHOOSE i \in EffectsOf(r, "download") : TRUE
    IN <<"RUNNER_TEMP", "/", "dir:">> \o dlEffects[r][i].url

\* run r has returned the ToolInfo of its version and the cache entry of
\* that version holds what the run downloaded
OwnOutcome(r) ==
    /\ dlResult[r] = ToolInfoOf(dlIn[r].version)
    /\ dlIn[r].version \in DOMAIN cache
    /\ EffectsOf(r, "download") # {} => cache[dlIn[r].version] = OwnFolder(r)

\* C22: two runs that resolve different concrete versions concurrently,
\* their steps interleaved in any way, do not interfere: each returns the
\* ToolInfo and leaves the cache entry for its version that it returns and
\* leaves when it runs alone, and no step of one run changes the cache
\* entry of the other's version.
C22_DifferentVersionsApart ==
    /\ [](\A r \in Runs :
            ((Apart \/ Alone(r)) /\ dlPc[r] = "done" /\ dlResult[r].status = "ok")
                => OwnOutcome(r))
    /\ [][Apart => \A r \in Runs :
            dlPc'[r] # dlPc[r] =>
                LET version == dlIn[Other(r)].version
                IN /\ (version \in DOMAIN cache') = (version \in DOMAIN cache)
                   /\ version \in DOMAIN cache => cache'[version] = cache[version]]_vars

\* both runs missed the cache, downloaded and returned: one 6.40.0, the
\* other 7.0.0
C22_Witness ==
    /\ Apart
    /\ dlIn[1].version = <<"6", ".", "40", ".", "0">>
    /\ dlIn[2].version = <<"7", ".", "0", ".", "0">>
    /\ \A r \in Runs :
          /\ dlPc[r] = "done"
          /\ dlResult[r].status = "ok"
          /\ EffectsOf(r, "cacheDir") # {}
    /\ DOMAIN cache = {dlIn[1].version, dlIn[2].version}

(***************************************************************************)
(* The two version predicates of executePmd together.                      *)
(***************************************************************************)
\* the launch e uses the entry point or the subcommand of PMD 7
Pmd7Style(e) ==
    \/ e.commandLine[Len(execIn.pmdInfo.path) + 1] = "/bin/pmd"
    \/ \E k \in 1..Len(e.commandLine) : e.commandLine[k] = " check --no-progress"

ShortFlags(e) == \E k \in 1..Len(e.args) : e.args[k] \in {<<"-no-cache">>, <<"-filelist">>}

LongFlags(e) == \E k \in 1..Len(e.args) : e.args[k] \in {<<"--no-cache">>, <<"--file-list">>}

\* C23: the two version predicates are nested: a version with major >= 7,
\* a prerelease of 7.0.0 included, is also >= 6.41.0, so no launch combines
\* the 'check --no-progress' subcommand or the /bin/pmd entry point with
\* the short flags -no-cache or -filelist.
C23_PredicatesNested ==
    /\ execPc # "idle" =>
          /\ isPmd7Cli(execIn.pmdInfo.version) => useNewArgsFormat(execIn.pmdInfo.version)
          /\ VersionOf(execIn.pmdInfo.version).major >= 7
                => AtLeast6410(VersionOf(execIn.pmdInfo.version))
    /\ \A i \in Launches :
          /\ ~(Pmd7Style(execEffects[i]) /\ ShortFlags(execEffects[i]))
          /\ ShortFlags(execEffects[i]) # LongFlags(execEffects[i])
          /\ VersionOf(execIn.pmdInfo.version).major >= 7 =>
                Pmd7Style(execEffects[i]) /\ LongFlags(execEffects[i])

\* 7.0.0-rc1 was launched on linux with a file list: /bin/pmd, the
\* subcommand and the long flags
C23_Witness ==
    /\ execPc # "idle"
    /\ platform = "linux"
    /\ execIn.pmdInfo.version = <<"7", ".", "0", ".", "0", "-", "rc1">>
    /\ execIn.fileListOrSourcePath.isArray
    /\ \E i \in Launches :
          /\ Pmd7Style(execEffects[i])
          /\ execEffects[i].args[1] = <<"--no-cache">>
          /\ execEffects[i].args[2] = <<"--file-list">>

\* the two other combinations that occur: the long flags, and the short
\* flags, without the PMD 7 style
LongFlagsBelow7 ==
    \E i \in Launches : ~Pmd7Style(execEffects[i]) /\ LongFlags(execEffects[i])

ShortFlagsBelow7 ==
    \E i \in Launches : ~Pmd7Style(execEffects[i]) /\ ShortFlags(execEffects[i])
====
